---- MODULE Spec2Model ----
(***************************************************************************)
(* The retrieval-augmented generation core of arelis-backend               *)
(* (src/app/rag_store.py), the chat orchestration that calls it            *)
(* (src/app/main.py) and the knowledge-base routes that ingest and delete  *)
(* documents (src/app/routers/kb.py).                                      *)
(*                                                                         *)
(* A Python str is modelled as a sequence of one-character strings, so     *)
(* that lower(), re.findall, len, slicing and the "in" substring test are  *)
(* computed character by character as the code computes them.              *)
(***************************************************************************)
EXTENDS Integers, Sequences, FiniteSets, TLC

VARIABLES
    gate_query,     \* should_use_context: the query argument
    gate_chunks,    \* should_use_context: the chunks argument
    gate_kws,       \* _keywords(query) as the call computed it
    gate_result,    \* what the call returned
    gate_pc,        \* "call" before should_use_context has run, "done" after
    emb_text,       \* LightHashEmbeddings: the text that is embedded
    emb_hash,       \* the running process's str hash: token -> hash(token)
    emb_process,    \* which process is running (1: the one that ingests)
    emb_doc_vec,    \* embed_documents([text])[0], as computed at ingestion
    emb_query_vec,  \* embed_query(text), as computed for the later query
    emb_pc,         \* "ingest", "indexed", "done"
    index,          \* the Chroma collection "kb_chunks": a set of entries
    _VECTORSTORE,   \* the module global: NoHandle or the handle last assigned
    handles,        \* how many times Chroma(...) has been constructed
    thr,            \* per request thread: the running call, its locals and position
    calls,          \* how many requests have been started
    deleted,        \* history: <<owner, document, entries removed>> of the deletes
                    \* after which the document was not written again
    documents,      \* the committed rows of the table kb_documents
    stored,         \* the files under the storage root: their paths
    uuids,          \* how many times uuid.uuid4() has been called
    req,            \* per request thread: the kb route it runs, its locals and position
    chunk_in,       \* chunk_text: the text argument
    chunk_out,      \* what the call returned
    chunk_pc        \* "call" before chunk_text has run, "done" after

gateVars == <<gate_query, gate_chunks, gate_kws, gate_result, gate_pc>>
embVars == <<emb_text, emb_hash, emb_process, emb_doc_vec, emb_query_vec, emb_pc>>

idxVars == <<index, _VECTORSTORE, handles, thr, calls, deleted>>

kbVars == <<documents, stored, uuids, req>>
chunkVars == <<chunk_in, chunk_out, chunk_pc>>

vars == <<gateVars, embVars, idxVars, kbVars, chunkVars>>

Min(a, b) == IF a < b THEN a ELSE b

Range(s) == {s[i] : i \in 1..Len(s)}

\* the element of a set of one element.  The({F(x) : x \in {e}}) is F(e), with
\* e evaluated once and F applied to its value.
The(S) == CHOOSE y \in S : TRUE

\* the function f on 1..n as a tuple
Tuple(f, n) == SubSeq(f, 1, n)

\* the members of the set S of integers that lie in lo..hi, in increasing order
RECURSIVE SortedIn(_, _, _)
SortedIn(S, lo, hi) ==
    IF lo > hi THEN <<>>
    ELSE IF lo = hi THEN (IF lo \in S THEN <<lo>> ELSE <<>>)
    ELSE LET mid == (lo + hi) \div 2
         IN  SortedIn(S, lo, mid) \o SortedIn(S, mid + 1, hi)

(***************************************************************************)
(* Characters and str helpers                                              *)
(***************************************************************************)
LowerChars ==
    <<"a", "b", "c", "d", "e", "f", "g", "h", "i", "j", "k", "l", "m",
      "n", "o", "p", "q", "r", "s", "t", "u", "v", "w", "x", "y", "z">>

UpperChars ==
    <<"A", "B", "C", "D", "E", "F", "G", "H", "I", "J", "K", "L", "M",
      "N", "O", "P", "Q", "R", "S", "T", "U", "V", "W", "X", "Y", "Z">>

DigitChars == <<"0", "1", "2", "3", "4", "5", "6", "7", "8", "9">>

\* str.lower() on one character
LowerChar(c) ==
    IF \E i \in 1..Len(UpperChars) : UpperChars[i] = c
    THEN LowerChars[CHOOSE i \in 1..Len(UpperChars) : UpperChars[i] = c]
    ELSE c

\* str.lower()
Lower(text) == Tuple([i \in 1..Len(text) |-> LowerChar(text[i])], Len(text))

\* the character class [a-zA-Z0-9]
Alnum == Range(LowerChars) \cup Range(UpperChars) \cup Range(DigitChars)
IsAlnum(c) == c \in Alnum

\* sub in text, for str
Contains(text, sub) ==
    \E i \in 1..(Len(text) - Len(sub) + 1) : SubSeq(text, i, i + Len(sub) - 1) = sub

\* re.findall(r"[a-zA-Z0-9]+", (text or "").lower()): the maximal runs of
\* alphanumerics of the lowercased text, left to right
_tokenize(text) ==
    LET Tokens(t) ==
            LET n == Len(t)
                starts == {i \in 1..n : IsAlnum(t[i]) /\ (i = 1 \/ ~IsAlnum(t[i - 1]))}
                EndOf(i) == CHOOSE j \in i..n :
                                /\ \A m \in i..j : IsAlnum(t[m])
                                /\ (j = n \/ ~IsAlnum(t[j + 1]))
                Runs(ss) == Tuple([k \in 1..Len(ss) |-> SubSeq(t, ss[k], EndOf(ss[k]))],
                                  Len(ss))
            IN  The({Runs(x) : x \in {SortedIn(starts, 1, n)}})
    IN  The({Tokens(x) : x \in {Lower(text)}})

(***************************************************************************)
(* chunk_text: RecursiveCharacterTextSplitter(chunk_size=900,              *)
(* chunk_overlap=160, separators=["\n\n", "\n", " ", ""]), with the        *)
(* splitter's defaults keep_separator=True, strip_whitespace=True and      *)
(* length_function=len.  Loops over long lists are written as recursions   *)
(* that halve the index range, so that their depth stays logarithmic.      *)
(***************************************************************************)
ChunkSize == 900
ChunkOverlap == 160
\* a splitter whose separators do not end with "", the cut between any two
\* characters
Separators_NoCharMutant == <<<<"\n", "\n">>, <<"\n">>, <<" ">>>>

\* separators=["\n\n", "\n", " ", ""]
Separators == <<<<"\n", "\n">>, <<"\n">>, <<" ">>, <<>>>>

\* the characters str.strip() removes
Whitespace == {" ", "\n", "\t", "\r"}

\* separator.join(docs[lo..hi])
RECURSIVE JoinRange(_, _, _, _)
JoinRange(docs, separator, lo, hi) ==
    IF lo > hi THEN <<>>
    ELSE IF lo = hi THEN docs[lo]
    ELSE LET mid == (lo + hi) \div 2
         IN  JoinRange(docs, separator, lo, mid) \o separator
                 \o JoinRange(docs, separator, mid + 1, hi)

\* str.strip()
Strip(text) ==
    IF \A i \in 1..Len(text) : text[i] \in Whitespace THEN <<>>
    ELSE LET first == CHOOSE i \in 1..Len(text) :
                          /\ text[i] \notin Whitespace
                          /\ \A j \in 1..(i - 1) : text[j] \in Whitespace
             last == CHOOSE i \in 1..Len(text) :
                          /\ text[i] \notin Whitespace
                          /\ \A j \in (i + 1)..Len(text) : text[j] \in Whitespace
         IN  SubSeq(text, first, last)

\* Where re.split finds the separator: its leftmost non-overlapping occurrences.
\* Every separator of the list is one character repeated, so inside a run of
\* that character the matches start at every Len(separator)-th position.
MatchStarts(text, separator) ==
    LET L == Len(separator)
        c == separator[1]
        \* how many c stand immediately before position i
        Before(i) == CHOOSE k \in 0..(i - 1) :
                         /\ \A m \in 1..k : text[i - m] = c
                         /\ (k = i - 1 \/ text[i - k - 1] # c)
    IN  {i \in 1..(Len(text) - L + 1) :
            /\ SubSeq(text, i, i + L - 1) = separator
            /\ (L = 1 \/ Before(i) % L = 0)}

\* _split_text_with_regex(text, separator, keep_separator=True): the text cut in
\* front of every match, each separator kept at the start of the piece after it,
\* empty pieces dropped; list(text) for the empty separator
_split_text_with_regex(text, separator) ==
    IF separator # <<>>
    THEN LET n == Len(text)
             Pieces(cuts) ==
                 Tuple([k \in 1..Len(cuts) |->
                           SubSeq(text, cuts[k],
                                  IF k = Len(cuts) THEN n ELSE cuts[k + 1] - 1)],
                       Len(cuts))
             Cuts(starts) == SortedIn(starts, 1, n)
         IN  The({Pieces(x) :
                    x \in {Cuts(x) : x \in {{1} \cup MatchStarts(text, separator)}}})
    ELSE Tuple([i \in 1..Len(text) |-> <<text[i]>>], Len(text))

\* TextSplitter._join_docs: None is the empty text here, which the caller drops
_join_docs(docs, separator) == Strip(JoinRange(docs, separator, 1, Len(docs)))

\* the separator's length counts between two splits only
SepLen(separator, n) == IF n > 0 THEN Len(separator) ELSE 0

\* the condition of the while loop of _merge_splits
PopCond(st, len, separator) ==
    \/ st.total > ChunkOverlap
    \/ /\ st.total + len + SepLen(separator, Len(st.current_doc)) > ChunkSize
       /\ st.total > 0

\* one turn of that loop: current_doc[0] is dropped
PopOnce(st, separator) ==
    [docs |-> st.docs,
     current_doc |-> Tail(st.current_doc),
     total |-> st.total - (Len(st.current_doc[1])
                             + (IF Len(st.current_doc) > 1 THEN Len(separator) ELSE 0))]

\* at most n turns of the loop
RECURSIVE PopSome(_, _, _, _)
PopSome(st, len, separator, n) ==
    IF n = 0 \/ ~PopCond(st, len, separator) THEN st
    ELSE IF n = 1 THEN PopOnce(st, separator)
    ELSE LET Rest(half) == PopSome(half, len, separator, n - (n \div 2))
         IN  The({Rest(x) : x \in {PopSome(st, len, separator, n \div 2)}})

\* the while loop, run to its end: it stops at the latest when current_doc is
\* empty, for total is 0 then
PopLoop(st, len, separator) == PopSome(st, len, separator, Len(st.current_doc))

\* the body of "for d in splits" in _merge_splits
MergeStep(st, d, separator) ==
    LET len == Len(d)
        full == st.total + len + SepLen(separator, Len(st.current_doc)) > ChunkSize
        Emit(doc) == PopLoop([st EXCEPT !.docs = IF doc # <<>> THEN Append(@, doc) ELSE @],
                             len, separator)
        Add(emitted) ==
            [docs |-> emitted.docs,
             current_doc |-> Append(emitted.current_doc, d),
             total |-> emitted.total + len
                           + (IF Len(emitted.current_doc) > 0 THEN Len(separator) ELSE 0)]
    IN  IF full /\ Len(st.current_doc) > 0
        THEN The({Add(x) :
                     x \in {Emit(x) : x \in {_join_docs(st.current_doc, separator)}}})
        ELSE Add(st)

RECURSIVE MergeRange(_, _, _, _, _)
MergeRange(st, splits, separator, lo, hi) ==
    IF lo > hi THEN st
    ELSE IF lo = hi THEN MergeStep(st, splits[lo], separator)
    ELSE LET mid == (lo + hi) \div 2
             Rest(left) == MergeRange(left, splits, separator, mid + 1, hi)
         IN  The({Rest(x) : x \in {MergeRange(st, splits, separator, lo, mid)}})

\* TextSplitter._merge_splits(splits, separator)
_merge_splits(splits, separator) ==
    LET Finish(st) ==
            LET Out(doc) == IF doc # <<>> THEN Append(st.docs, doc) ELSE st.docs
            IN  The({Out(x) : x \in {_join_docs(st.current_doc, separator)}})
        Run(ss) == MergeRange([docs |-> <<>>, current_doc |-> <<>>, total |-> 0],
                              ss, separator, 1, Len(ss))
    IN  The({Finish(x) : x \in {Run(x) : x \in {splits}}})

\* the separator _split_text picks: the first of the list that is empty or
\* occurs in the text (the last one when none does), and the ones after it
PickSeparator(text, separators) ==
    LET hits == {i \in 1..Len(separators) :
                    separators[i] = <<>> \/ Contains(text, separators[i])}
        Picked(hs) ==
            IF hs = {}
            THEN [separator |-> separators[Len(separators)], new_separators |-> <<>>]
            ELSE LET i == CHOOSE i \in hs : \A j \in hs : i <= j
                 IN  [separator |-> separators[i],
                      new_separators |-> IF separators[i] = <<>> THEN <<>>
                                         ELSE SubSeq(separators, i + 1, Len(separators))]
    IN  The({Picked(x) : x \in {hits}})

RECURSIVE _split_text(_, _)
RECURSIVE SplitRange(_, _, _, _, _)

\* the body of "for s in splits" in _split_text; keep_separator=True makes the
\* merge separator the empty string
SplitStep(st, s, new_separators) ==
    IF Len(s) < ChunkSize
    THEN [st EXCEPT !.good = Append(@, s)]
    ELSE LET Deeper(flushed) ==
                 [final |-> IF new_separators = <<>> THEN Append(flushed, s)
                            ELSE flushed \o _split_text(s, new_separators),
                  good |-> <<>>]
         IN  The({Deeper(x) :
                    x \in {IF st.good # <<>>
                           THEN st.final \o _merge_splits(st.good, <<>>)
                           ELSE st.final}})

SplitRange(st, splits, new_separators, lo, hi) ==
    IF lo > hi THEN st
    ELSE IF lo = hi THEN SplitStep(st, splits[lo], new_separators)
    ELSE LET mid == (lo + hi) \div 2
             Rest(left) == SplitRange(left, splits, new_separators, mid + 1, hi)
         IN  The({Rest(x) : x \in {SplitRange(st, splits, new_separators, lo, mid)}})

\* RecursiveCharacterTextSplitter._split_text(text, separators)
_split_text(text, separators) ==
    LET Finish(st) ==
            IF st.good # <<>> THEN st.final \o _merge_splits(st.good, <<>>) ELSE st.final
        Run(pick) ==
            LET Loop(splits) == SplitRange([final |-> <<>>, good |-> <<>>], splits,
                                           pick.new_separators, 1, Len(splits))
            IN  The({Finish(x) :
                        x \in {Loop(x) :
                                  x \in {_split_text_with_regex(text, pick.separator)}}})
    IN  The({Run(x) : x \in {PickSeparator(text, separators)}})

\* chunk_text(text): splitter.split_text(text or "")
chunk_text(text) == _split_text(text, Separators)

(***************************************************************************)
(* LightHashEmbeddings                                                     *)
(***************************************************************************)
\* LightHashEmbeddings.__init__: dim
Dim == 384

RECURSIVE Gcd(_, _)
Gcd(a, b) == IF b = 0 THEN a ELSE Gcd(b, a % b)

\* A component v / norm of the normalised vector, v >= 0 and norm = sqrt(normsq),
\* is kept exactly, as the reduced fraction <<p, q>> = v*v / normsq of its square.
Component(v, normsq) ==
    IF v = 0 THEN <<0, 1>>
    ELSE LET g == Gcd(v * v, normsq) IN <<(v * v) \div g, normsq \div g>>

ZeroVec == [i \in 0..(Dim - 1) |-> <<0, 1>>]

\* LightHashEmbeddings._embed(text), in a process whose built-in hash is `hash`
_embed(text, hash) ==
    LET \* vec[hash(t) % self.dim] += 1.0 for every token t
        Count(toks) ==
            LET buckets == {hash[toks[k]] % Dim : k \in 1..Len(toks)}
            IN  [i \in buckets |->
                    Cardinality({k \in 1..Len(toks) : hash[toks[k]] % Dim = i})]
        Normalise(hits) ==
            LET RECURSIVE SumSq(_)
                SumSq(S) == IF S = {} THEN 0
                            ELSE LET i == CHOOSE i \in S : TRUE
                                 IN  hits[i] * hits[i] + SumSq(S \ {i})
                \* norm * norm = sum(v * v for v in vec)
                Scale(normsq) ==
                    IF normsq > 0
                    THEN [i \in 0..(Dim - 1) |->
                             IF i \in DOMAIN hits THEN Component(hits[i], normsq)
                             ELSE <<0, 1>>]
                    ELSE ZeroVec \* no token: the all-zero vector, left as it is
            IN  The({Scale(x) : x \in {SumSq(DOMAIN hits)}})
    IN  The({Normalise(x) : x \in {Count(x) : x \in {_tokenize(text)}}})

(***************************************************************************)
(* The relevance gate                                                      *)
(***************************************************************************)
_STOP == {
    <<"t", "h", "e">>,
    <<"a", "n", "d">>,
    <<"f", "o", "r">>,
    <<"w", "i", "t", "h">>,
    <<"t", "h", "a", "t">>,
    <<"t", "h", "i", "s">>,
    <<"f", "r", "o", "m">>,
    <<"a", "r", "e">>,
    <<"w", "a", "s">>,
    <<"w", "e", "r", "e">>,
    <<"y", "o", "u">>,
    <<"y", "o", "u", "r">>,
    <<"i", "n", "t", "o">>,
    <<"a", "b", "o", "u", "t">>,
    <<"c", "a", "n">>,
    <<"w", "i", "l", "l">>,
    <<"w", "h", "a", "t">>,
    <<"h", "o", "w">>,
    <<"w", "h", "y">>,
    <<"w", "h", "e", "n">>,
    <<"w", "h", "e", "r", "e">>,
    <<"w", "h", "i", "c", "h">>,
    <<"t", "h", "e", "i", "r">>,
    <<"t", "h", "e", "y">>,
    <<"t", "h", "e", "m">>,
    <<"n", "o", "t">>,
    <<"b", "u", "t">>,
    <<"a", "l", "s", "o">>
    }

MinKeywordLen == 4
MaxKeywords == 12
GateTop == 4
GateThreshold == 2

\* a _keywords that forgets the length filter
_keywords_KeepShortMutant(query) ==
    LET Keep(t) == t \notin _STOP
        Cut(kws) == SubSeq(kws, 1, Min(MaxKeywords, Len(kws)))
    IN  The({Cut(x) : x \in {SelectSeq(_tokenize(query), Keep)}})

\* _keywords: a list, so every occurrence of a surviving token is kept, in
\* order of appearance; cut to the first 12
_keywords(query) ==
    LET Keep(t) == ~(Len(t) < MinKeywordLen) /\ t \notin _STOP
        Cut(kws) == SubSeq(kws, 1, Min(MaxKeywords, Len(kws)))
    IN  The({Cut(x) : x \in {SelectSeq(_tokenize(query), Keep)}})

\* overlap = sum(1 for kw in kws if kw in t): one per position of kws
Overlap(kws, text) ==
    LET Count(t) == Cardinality({i \in 1..Len(kws) : Contains(t, kws[i])})
    IN  The({Count(x) : x \in {Lower(text)}})

\* should_use_context, lines 195-206
should_use_context(query, chunks) ==
    IF chunks = <<>> THEN FALSE
    ELSE LET Gate(kws) ==
                 IF kws = <<>> THEN FALSE
                 ELSE LET top == SubSeq(chunks, 1, Min(GateTop, Len(chunks)))
                          Best(overlaps) == CHOOSE b \in overlaps \cup {0} :
                                                \A o \in overlaps \cup {0} : o <= b
                      IN  The({Best(x) :
                                  x \in {{Overlap(kws, top[i].text) : i \in 1..Len(top)}}})
                              >= GateThreshold
         IN  The({Gate(x) : x \in {_keywords(query)}})

\* "can you help"
Q_help ==
    <<"c", "a", "n", " ", "y", "o", "u", " ", "h", "e", "l", "p">>

\* "Why was the car red?"
Q_stop ==
    <<"W", "h", "y", " ", "w", "a", "s", " ", "t", "h", "e", " ", "c", "a", "r", " ", "r", "e",
    "d", "?">>

\* "What is the termination notice period?"
Q_term ==
    <<"W", "h", "a", "t", " ", "i", "s", " ", "t", "h", "e", " ", "t", "e", "r", "m", "i", "n",
    "a", "t", "i", "o", "n", " ", "n", "o", "t", "i", "c", "e", " ", "p", "e", "r", "i", "o",
    "d", "?">>

\* "Termination, termination!"
Q_dup ==
    <<"T", "e", "r", "m", "i", "n", "a", "t", "i", "o", "n", ",", " ", "t", "e", "r", "m", "i",
    "n", "a", "t", "i", "o", "n", "!">>

\* "How do I register a car?"
Q_car ==
    <<"H", "o", "w", " ", "d", "o", " ", "I", " ", "r", "e", "g", "i", "s", "t", "e", "r", " ",
    "a", " ", "c", "a", "r", "?">>

\* "aaaa bbbb cccc dddd eeee ffff gggg hhhh iiii jjjj kkkk llll notice period"
Q_many ==
    <<"a", "a", "a", "a", " ", "b", "b", "b", "b", " ", "c", "c", "c", "c", " ", "d", "d", "d",
    "d", " ", "e", "e", "e", "e", " ", "f", "f", "f", "f", " ", "g", "g", "g", "g", " ", "h",
    "h", "h", "h", " ", "i", "i", "i", "i", " ", "j", "j", "j", "j", " ", "k", "k", "k", "k",
    " ", "l", "l", "l", "l", " ", "n", "o", "t", "i", "c", "e", " ", "p", "e", "r", "i", "o",
    "d">>

\* "The termination notice period is 30 days."
T_term ==
    <<"T", "h", "e", " ", "t", "e", "r", "m", "i", "n", "a", "t", "i", "o", "n", " ", "n", "o",
    "t", "i", "c", "e", " ", "p", "e", "r", "i", "o", "d", " ", "i", "s", " ", "3", "0", " ",
    "d", "a", "y", "s", ".">>

\* "data protection consent forms"
T_gdpr ==
    <<"d", "a", "t", "a", " ", "p", "r", "o", "t", "e", "c", "t", "i", "o", "n", " ", "c", "o",
    "n", "s", "e", "n", "t", " ", "f", "o", "r", "m", "s">>

\* "Termination clause"
T_one ==
    <<"T", "e", "r", "m", "i", "n", "a", "t", "i", "o", "n", " ", "c", "l", "a", "u", "s", "e">>


\* RagChunk, as far as should_use_context reads it
GateChunk(text) == [text |-> text, doc_id |-> "d1", filename |-> "a.pdf", page |-> 1]

GateQueries == {<<>>, Q_help, Q_stop, Q_term, Q_dup, Q_car, Q_many}
GateTexts == {T_term, T_gdpr, T_one}

\* the longest chunk list handed to the gate
MaxGateChunks == 5

GateChunkLists ==
    UNION {[1..n -> {GateChunk(t) : t \in GateTexts}] : n \in 0..MaxGateChunks}

\* the arguments of the call are drawn here; ShouldUseContextCall applies the gate
InitGate ==
    /\ gate_query \in GateQueries
    /\ gate_chunks \in GateChunkLists
    /\ gate_kws = <<>>
    /\ gate_result = FALSE
    /\ gate_pc = "call"

\* should_use_context(query, chunks) runs and returns
ShouldUseContextCall ==
    /\ gate_pc = "call"
    /\ gate_pc' = "done"
    /\ gate_kws' = _keywords(gate_query)
    /\ gate_result' = should_use_context(gate_query, gate_chunks)
    /\ UNCHANGED <<gate_query, gate_chunks, embVars, idxVars, kbVars, chunkVars>>

NextGate == ShouldUseContextCall

(***************************************************************************)
(* Claims about the relevance gate (checked under SpecGate)                *)
(***************************************************************************)

\* the distinct keywords of gate_kws found in the lowercased text
DistinctHits(kws, text) == {kw \in Range(kws) : Contains(Lower(text), kw)}

\* C6: for a non-empty chunk list, should_use_context returns true if and only
\* if one of the first 4 chunks contains at least two distinct keywords of the
\* query as substrings of its lowercased text.
C6_GateIffTwoDistinctKeywords ==
    (gate_pc = "done" /\ gate_chunks # <<>>) =>
        (gate_result <=>
            \E i \in 1..Min(4, Len(gate_chunks)) :
                Cardinality(DistinctHits(_keywords(gate_query), gate_chunks[i].text)) >= 2)

\* C7 as stated: for "can you help" no keyword survives and the gate is false.
C7_CanYouHelpHasNoKeywords ==
    (gate_pc = "done" /\ gate_query = Q_help) =>
        (gate_kws = <<>> /\ gate_result = FALSE)

\* every token of the query is shorter than 4 characters or a stop-word
OnlyStopOrShort(query) ==
    \A t \in Range(_tokenize(query)) : Len(t) < 4 \/ t \in _STOP

\* C7 (amended): a query whose tokens are all stop-words or shorter than 4
\* characters leaves no keyword and the gate returns false for every chunk list;
\* "can you help" is not such a query: "help" survives as its only keyword, and
\* the gate still returns false for every chunk list.
C7_StopOnlyQueryGateFalse ==
    gate_pc = "done" =>
        /\ OnlyStopOrShort(gate_query) => (gate_kws = <<>> /\ gate_result = FALSE)
        /\ gate_query = Q_help =>
                (gate_kws = <<<<"h", "e", "l", "p">>>> /\ gate_result = FALSE)

\* C7, the case: the gate has answered false for a query of stop-words and
\* short tokens and a chunk list of the greatest length
C7_Witness ==
    /\ gate_pc = "done"
    /\ gate_query = Q_stop
    /\ Len(gate_chunks) = MaxGateChunks
    /\ gate_result = FALSE

(***************************************************************************)
(* Embedding a text at ingestion and again for a query                     *)
(***************************************************************************)
\* "alpha"
E_alpha ==
    <<"a", "l", "p", "h", "a">>

\* "Alpha beta"
E_ab ==
    <<"A", "l", "p", "h", "a", " ", "b", "e", "t", "a">>

\* "beta, alpha; ALPHA"
E_aab ==
    <<"b", "e", "t", "a", ",", " ", "a", "l", "p", "h", "a", ";", " ", "A", "L", "P", "H", "A">>

\* "?!"
E_punct ==
    <<"?", "!">>

EmbedTexts == {<<>>, E_alpha, E_ab, E_aab, E_punct}

EmbedTokens == UNION {Range(_tokenize(t)) : t \in EmbedTexts}

\* Values of the built-in hash(str): a 64-bit signed integer that CPython salts
\* with a per-process random seed (PYTHONHASHSEED unset), so each process has
\* its own function from tokens to these values. 1 and 385 share a bucket.
HashValues == {-2, 0, 1, 385}

StrHashes == [EmbedTokens -> HashValues]

EmbedOff ==
    /\ emb_text = <<>>
    /\ emb_hash = <<>>
    /\ emb_process = 0
    /\ emb_doc_vec = <<>>
    /\ emb_query_vec = <<>>
    /\ emb_pc = "off"

InitEmbed ==
    /\ emb_text \in EmbedTexts
    /\ emb_hash \in StrHashes
    /\ emb_process = 1
    /\ emb_doc_vec = <<>>
    /\ emb_query_vec = <<>>
    /\ emb_pc = "ingest"

\* embed_documents([text]) while the text is indexed
EmbedDocuments ==
    /\ emb_pc = "ingest"
    /\ emb_doc_vec' = _embed(emb_text, emb_hash)
    /\ emb_pc' = "indexed"
    /\ UNCHANGED <<emb_text, emb_hash, emb_process, emb_query_vec, gateVars, idxVars, kbVars, chunkVars>>

\* the server process is restarted: the index is on disk, the hash salt is new
RestartProcess ==
    /\ emb_pc = "indexed"
    /\ emb_process = 1
    /\ emb_process' = 2
    /\ emb_hash' \in StrHashes
    /\ UNCHANGED <<emb_text, emb_doc_vec, emb_query_vec, emb_pc, gateVars, idxVars, kbVars, chunkVars>>

\* embed_query(text) for a search
EmbedQuery ==
    /\ emb_pc = "indexed"
    /\ emb_query_vec' = _embed(emb_text, emb_hash)
    /\ emb_pc' = "done"
    /\ UNCHANGED <<emb_text, emb_hash, emb_process, emb_doc_vec, gateVars, idxVars, kbVars, chunkVars>>

NextEmbed == EmbedDocuments \/ RestartProcess \/ EmbedQuery

\* C5: a text embedded at ingestion and embedded again later yields the identical
\* vector, in the same process and in a restarted one.
C5_EmbeddingStableAcrossProcesses ==
    emb_pc = "done" => emb_query_vec = emb_doc_vec

(***************************************************************************)
(* The vector index and the requests that use it                           *)
(***************************************************************************)
\* _VECTORSTORE = None; a handle is the number of the construction that made it
NoHandle == 0

Users == {"u1", "u2"}
\* the documents there are, each with its owner: u1 has two, and u2 has one
\* whose id is the id of a document of u1
Documents == {<<"u1", "d1">>, <<"u1", "d2">>, <<"u2", "d1">>}
\* the threads that run requests
Threads == {1, 2}

\* how many requests a behaviour starts
MaxCalls == 2

\* a page whose two paragraphs are set apart by 900 blanks of layout
P_two == T_term \o [i \in 1..900 |-> " "] \o T_gdpr
\* a page without text
P_blank == <<" ", "\n", " ">>

\* the texts that pages have. A page holds its text by name, as a Python tuple
\* holds a reference to a str, and TextOf gives the characters.
PageTexts == {"P_two", "T_one", "P_blank"}
TextOf(name) ==
    CASE name = "P_two" -> P_two
      [] name = "T_one" -> T_one
      [] name = "P_blank" -> P_blank

\* _extract_pdf_pages: the pages of a file, numbered from 1
ExtractedPages(texts) == [i \in 1..Len(texts) |-> <<i, texts[i]>>]

\* the calls of index_pages that are made: (user_id, doc_id, filename, pages).
\* The document d1 of u1 is ingested with two chunks and with one, so that a
\* second ingestion can bring fewer chunks than the first.
IndexRequests ==
    {<<"u1", "d1", "a.pdf", ExtractedPages(<<"P_two">>)>>,
     <<"u1", "d1", "a.pdf", ExtractedPages(<<"T_one">>)>>,
     <<"u1", "d2", "a.pdf", ExtractedPages(<<"P_blank">>)>>,
     <<"u2", "d1", "a.pdf", ExtractedPages(<<"P_two">>)>>}

\* chunk_text over the page texts above, computed once: the pairs
\* (name of the text, chunk_text(text))
ChunkTable == {<<t, chunk_text(TextOf(t))>> : t \in PageTexts}

\* f"{user_id}:{doc_id}:{page_num}:{ci}"
ChunkId(user_id, doc_id, page_num, ci) ==
    user_id \o ":" \o doc_id \o ":" \o ToString(page_num) \o ":" \o ToString(ci)

\* the Documents and ids of one page: enumerate(chunk_text(page_text)), each chunk
\* stripped, the empty ones skipped (they keep their index ci)
PageDocs(user_id, doc_id, filename, page) ==
    LET page_num == page[1]
        cs == (CHOOSE p \in ChunkTable : p[1] = page[2])[2]
        all == [i \in 1..Len(cs) |->
                   [id |-> ChunkId(user_id, doc_id, page_num, i - 1),
                    page_content |-> Strip(cs[i]),
                    metadata |-> [user_id |-> user_id, doc_id |-> doc_id,
                                  filename |-> filename, page |-> page_num]]]
        Kept(d) == d.page_content # <<>>
    IN  SelectSeq(all, Kept)

\* index_pages, lines 93-112: docs and ids, page after page
RECURSIVE BuildDocs(_, _, _, _)
BuildDocs(user_id, doc_id, filename, pages) ==
    IF pages = <<>> THEN <<>>
    ELSE PageDocs(user_id, doc_id, filename, Head(pages))
             \o BuildDocs(user_id, doc_id, filename, Tail(pages))

\* an add_documents that inserts rows without looking for the ids it has
add_documents_InsertMutant(collection, docs) == collection \cup Range(docs)

\* vectorstore.add_documents(docs, ids=ids): one upsert of the whole batch; an
\* entry whose id is in the batch is replaced (the last one of the batch wins)
add_documents(collection, docs) ==
    LET ids == {docs[i].id : i \in 1..Len(docs)}
        Last(i) == \A j \in (i + 1)..Len(docs) : docs[j].id # docs[i].id
    IN  {e \in collection : e.id \notin ids}
            \cup {docs[i] : i \in {i \in 1..Len(docs) : Last(i)}}

\* a delete that filters on the document id alone
delete_where_DocOnlyMutant(collection, user_id, doc_id) ==
    {e \in collection : ~(e.metadata.doc_id = doc_id)}

\* a delete that removes the first chunk of each page only
delete_where_FirstChunkMutant(collection, user_id, doc_id) ==
    {e \in collection :
        ~(/\ e.metadata.user_id = user_id
          /\ e.metadata.doc_id = doc_id
          /\ e.id = ChunkId(user_id, doc_id, e.metadata.page, 0))}

\* vectorstore._collection.delete(where={"user_id": user_id, "doc_id": doc_id})
delete_where(collection, user_id, doc_id) ==
    {e \in collection :
        ~(e.metadata.user_id = user_id /\ e.metadata.doc_id = doc_id)}

\* a search that forgets the filter
similarity_search_NoFilterMutant(collection, query, k, user_id) ==
    LET m == Min(k, Cardinality(collection))
    IN  {r \in [1..m -> collection] : \A i, j \in 1..m : r[i] = r[j] => i = j}

\* vectorstore.similarity_search_with_score(query, k=k, filter={"user_id": user_id}):
\* the results the index may give.  The entries that pass the filter are ranked
\* by the distance between hash embeddings; that order depends on the process's
\* string hash and on the index's approximate search, so every order of every
\* min(k, matching) of them is a possible result.
similarity_search(collection, query, k, user_id) ==
    LET matching == {e \in collection : e.metadata.user_id = user_id}
        m == Min(k, Cardinality(matching))
    IN  {r \in [1..m -> matching] : \A i, j \in 1..m : r[i] = r[j] => i = j}

\* RagChunk(text, doc_id, filename, page) built from a result (the score, a float
\* nothing reads, is left out)
RagChunk(doc) ==
    [text |-> doc.page_content, doc_id |-> doc.metadata.doc_id,
     filename |-> doc.metadata.filename, page |-> doc.metadata.page]

\* retrieve_chunks, lines 181-192
ToChunks(results) == [i \in 1..Len(results) |-> RagChunk(results[i])]

\* "Noted."
T_ok ==
    <<"N", "o", "t", "e", "d", ".">>

Message(role, content) == [role |-> role, content |-> content]

\* ChatRequest.messages of the requests that are made
ChatPayloads ==
    {<<>>,
     <<Message("user", Q_term)>>,
     <<Message("user", Q_term), Message("assistant", T_ok), Message("user", <<>>)>>}

\* the (query, k) of the calls of retrieve_chunks that are made
RetrieveArgs == {<<<<>>, 6>>, <<Q_term, 1>>}

\* chat_stream, lines 125-129: the content of the last message whose role is
\* "user", "" when there is none
LastUserQuery(messages) ==
    LET us == {i \in 1..Len(messages) : messages[i].role = "user"}
    IN  IF us = {} THEN <<>>
        ELSE messages[CHOOSE i \in us : \A j \in us : j <= i].content

\* an excerpts message made of all the chunks
KbContextMessage_AllChunksMutant(chunks) ==
    [role |-> "system", kind |-> "kb_excerpts",
     excerpts |-> [i \in 1..Len(chunks) |->
                      [n |-> i, filename |-> chunks[i].filename,
                       page |-> chunks[i].page, text |-> chunks[i].text]]]

\* chat_stream, lines 155-167: the excerpts message made of chunks[:4]
KbContextMessage(chunks) ==
    LET top == SubSeq(chunks, 1, Min(4, Len(chunks)))
    IN  [role |-> "system", kind |-> "kb_excerpts",
         excerpts |-> [i \in 1..Len(top) |->
                          [n |-> i, filename |-> top[i].filename,
                           page |-> top[i].page, text |-> top[i].text]]]

\* what the query of chat_stream, lines 133-139, may find in the table of the
\* user's documents, which is outside rag_store: the filenames, most recent first
Inventories == {<<>>, <<"a.pdf">>}

\* chat_stream, lines 140-147: the inventory message, if there are documents
KbInventoryMessage(filenames) ==
    IF filenames = <<>> THEN <<>>
    ELSE <<[role |-> "system", kind |-> "kb_inventory", count |-> Len(filenames),
            filenames |-> filenames]>>

\* chat_stream, lines 171-176: the messages handed to the model
GenerationRequest(kb_inventory, kb_context, history) ==
    <<[role |-> "system", kind |-> "SYSTEM_PROMPT+RAG_GUIDANCE"]>>
        \o kb_inventory
        \o kb_context
        \o [i \in 1..Len(history) |->
               [role |-> history[i].role, kind |-> "history",
                content |-> history[i].content]]

\* a thread that runs no request
IdleThread ==
    [op |-> "idle", pc |-> "idle", user_id |-> "", doc_id |-> "", filename |-> "",
     pages |-> <<>>, query |-> <<>>, k |-> 0, messages |-> <<>>,
     vectorstore |-> NoHandle, docs |-> <<>>, results |-> <<>>, chunks |-> <<>>,
     searched |-> FALSE, deleted_before |-> {}, count |-> -1,
     persist_failed |-> FALSE, raised |-> FALSE, caught |-> FALSE,
     use_context |-> FALSE, request |-> <<>>]

\* no request is made: the index part stays empty
IndexOff ==
    /\ index = {}
    /\ _VECTORSTORE = NoHandle
    /\ handles = 0
    /\ thr = [t \in Threads |-> IdleThread]
    /\ calls = 0
    /\ deleted = {}

\* get_vectorstore, lines 61-69: the collection lives in persist_directory, so a
\* process starts with what earlier runs of the server wrote there: nothing, or
\* the batches of earlier index_pages calls (here d1 of u1 and d1 of u2)
PersistedIndexes ==
    {{},
     UNION {Range(BuildDocs(r[1], r[2], r[3], r[4])) :
               r \in {<<"u1", "d1", "a.pdf", ExtractedPages(<<"P_two">>)>>,
                      <<"u2", "d1", "a.pdf", ExtractedPages(<<"P_two">>)>>}}}

\* a process has started: no handle yet, no request running
InitIndex ==
    /\ index \in PersistedIndexes
    /\ _VECTORSTORE = NoHandle
    /\ handles = 0
    /\ thr = [t \in Threads |-> IdleThread]
    /\ calls = 0
    /\ deleted = {}

\* where a call goes once get_vectorstore() has returned
AfterHandle(op) ==
    CASE op = "index_pages" -> "add_documents"
      [] op = "delete_doc_index" -> "delete"
      [] OTHER -> "search"

\* get_vectorstore, lines 57-59: the global is read; the handle it holds is
\* returned, and without one the caller goes on to construct it
get_vectorstore(th) ==
    IF _VECTORSTORE # NoHandle
    THEN [th EXCEPT !.vectorstore = _VECTORSTORE, !.pc = AfterHandle(th.op)]
    ELSE [th EXCEPT !.pc = "construct"]

\* a thread takes a request when the request it ran has ended
Free(t) == thr[t].pc \in {"idle", "done"} /\ req[t].pc \in {"idle", "done"}

\* a request calls index_pages(user_id, doc_id, filename, pages), which starts
\* with get_vectorstore()
CallIndexPages(t) ==
    /\ Free(t)
    /\ calls < MaxCalls
    /\ \E r \in IndexRequests :
           thr' = [thr EXCEPT ![t] =
                      get_vectorstore([IdleThread EXCEPT !.op = "index_pages",
                                                         !.user_id = r[1],
                                                         !.doc_id = r[2],
                                                         !.filename = r[3],
                                                         !.pages = r[4]])]
    /\ calls' = calls + 1
    /\ UNCHANGED <<index, _VECTORSTORE, handles, deleted, gateVars, embVars, kbVars, chunkVars>>

\* a request calls delete_doc_index(user_id, doc_id)
CallDeleteDocIndex(t) ==
    /\ Free(t)
    /\ calls < MaxCalls
    /\ \E ud \in Documents :
           thr' = [thr EXCEPT ![t] =
                      get_vectorstore([IdleThread EXCEPT !.op = "delete_doc_index",
                                                         !.user_id = ud[1],
                                                         !.doc_id = ud[2]])]
    /\ calls' = calls + 1
    /\ UNCHANGED <<index, _VECTORSTORE, handles, deleted, gateVars, embVars, kbVars, chunkVars>>

\* a request calls retrieve_chunks(user_id, query, k)
CallRetrieveChunks(t) ==
    /\ Free(t)
    /\ calls < MaxCalls
    /\ \E u \in Users, qk \in RetrieveArgs :
           thr' = [thr EXCEPT ![t] =
                      get_vectorstore([IdleThread EXCEPT !.op = "retrieve_chunks",
                                                         !.user_id = u, !.query = qk[1],
                                                         !.k = qk[2]])]
    /\ calls' = calls + 1
    /\ UNCHANGED <<index, _VECTORSTORE, handles, deleted, gateVars, embVars, kbVars, chunkVars>>

\* a chat_stream that retrieves whatever the query is
retrieves_AlwaysMutant(query) == TRUE

\* chat_stream, line 153: retrieve_chunks is called only "if query"
retrieves(query) == query # <<>>

\* chat_stream, lines 124-129 and 153: the query is taken from the payload and
\* retrieve_chunks(user_id, query, k=6) is called when it is not empty
CallChatStream(t) ==
    /\ Free(t)
    /\ calls < MaxCalls
    /\ \E u \in Users, ms \in ChatPayloads :
           LET query == LastUserQuery(ms)
               th == [IdleThread EXCEPT !.op = "chat_stream", !.user_id = u,
                                        !.messages = ms, !.query = query, !.k = 6]
           IN  thr' = [thr EXCEPT ![t] =
                          IF retrieves(query) THEN get_vectorstore(th)
                          ELSE [th EXCEPT !.pc = "gate"]]
    /\ calls' = calls + 1
    /\ UNCHANGED <<index, _VECTORSTORE, handles, deleted, gateVars, embVars, kbVars, chunkVars>>

\* get_vectorstore, lines 61-70: a handle is constructed, assigned and returned
ConstructVectorstore(t) ==
    /\ thr[t].pc = "construct"
    /\ handles' = handles + 1
    /\ _VECTORSTORE' = handles + 1
    /\ thr' = [thr EXCEPT ![t] =
                  [thr[t] EXCEPT !.vectorstore = handles + 1,
                                 !.pc = AfterHandle(thr[t].op)]]
    /\ UNCHANGED <<index, calls, deleted, gateVars, embVars, kbVars, chunkVars>>

\* index_pages, lines 93-115 and 122: the batch is built and, if there is one,
\* written in one add_documents; without docs the call returns 0
IndexPagesAdd(t) ==
    /\ thr[t].pc = "add_documents"
    /\ LET th == thr[t]
           docs == BuildDocs(th.user_id, th.doc_id, th.filename, th.pages)
       IN  IF docs # <<>>
           THEN /\ index' = add_documents(index, docs)
                /\ deleted' = {x \in deleted : <<x[1], x[2]>> # <<th.user_id, th.doc_id>>}
                /\ thr' = [thr EXCEPT ![t] = [thr[t] EXCEPT !.docs = docs, !.pc = "persist"]]
           ELSE /\ thr' = [thr EXCEPT ![t] = [thr[t] EXCEPT !.count = 0, !.pc = "done"]]
                /\ UNCHANGED <<index, deleted>>
    /\ UNCHANGED <<_VECTORSTORE, handles, calls, gateVars, embVars, kbVars, chunkVars>>

\* an index_pages that lets the exception of persist() out
AfterPersist_RaiseMutant(th, fails) ==
    [th EXCEPT !.pc = "done", !.persist_failed = fails, !.raised = fails,
               !.count = IF fails THEN -1 ELSE Len(th.docs)]

\* index_pages, lines 116-122: whether persist() raised or not, the call goes on
\* to "return len(docs)"
AfterPersist(th, fails) ==
    [th EXCEPT !.pc = "done", !.persist_failed = fails, !.raised = FALSE,
               !.count = Len(th.docs)]

\* index_pages, lines 116-122: vectorstore.persist() returns or raises
IndexPagesPersist(t) ==
    /\ thr[t].pc = "persist"
    /\ thr[t].op = "index_pages"
    /\ \E fails \in BOOLEAN :
           thr' = [thr EXCEPT ![t] = AfterPersist(thr[t], fails)]
    /\ UNCHANGED <<index, _VECTORSTORE, handles, calls, deleted, gateVars, embVars, kbVars, chunkVars>>

\* delete_doc_index, line 128: the entries of the owner's document are removed
DeleteDocIndexDelete(t) ==
    /\ thr[t].pc = "delete"
    /\ index' = delete_where(index, thr[t].user_id, thr[t].doc_id)
    /\ deleted' = {x \in deleted : <<x[1], x[2]>> # <<thr[t].user_id, thr[t].doc_id>>}
                      \cup {<<thr[t].user_id, thr[t].doc_id, Cardinality(index \ index')>>}
    /\ thr' = [thr EXCEPT ![t] = [thr[t] EXCEPT !.pc = "persist"]]
    /\ UNCHANGED <<_VECTORSTORE, handles, calls, gateVars, embVars, kbVars, chunkVars>>

\* delete_doc_index, lines 129-132: persist() returns or raises, and is ignored
DeleteDocIndexPersist(t) ==
    /\ thr[t].pc = "persist"
    /\ thr[t].op = "delete_doc_index"
    /\ \E fails \in BOOLEAN :
           thr' = [thr EXCEPT ![t] = [thr[t] EXCEPT !.pc = "done", !.persist_failed = fails]]
    /\ UNCHANGED <<index, _VECTORSTORE, handles, calls, deleted, gateVars, embVars, kbVars, chunkVars>>

\* retrieve_chunks, lines 180-192: the owner-filtered search and its RagChunks
RetrieveChunksSearch(t) ==
    /\ thr[t].pc = "search"
    /\ \E results \in similarity_search(index, thr[t].query, thr[t].k, thr[t].user_id) :
           thr' = [thr EXCEPT ![t] =
                      [thr[t] EXCEPT !.results = results, !.chunks = ToChunks(results),
                                     !.searched = TRUE, !.deleted_before = deleted,
                                     !.pc = IF thr[t].op = "chat_stream" THEN "gate"
                                            ELSE "done"]]
    /\ UNCHANGED <<index, _VECTORSTORE, handles, calls, deleted, gateVars, embVars, kbVars, chunkVars>>

\* chat_stream, lines 131-176: chunks is what retrieve_chunks returned, or [] for
\* an empty query; the gate decides whether the excerpts message is added
ChatStreamGate(t) ==
    /\ thr[t].pc = "gate"
    /\ \E filenames \in Inventories :
           LET th == thr[t]
               use == th.query # <<>> /\ should_use_context(th.query, th.chunks)
               kb == IF use THEN <<KbContextMessage(th.chunks)>> ELSE <<>>
           IN  thr' = [thr EXCEPT ![t] =
                          [thr[t] EXCEPT !.use_context = use,
                                    !.request = GenerationRequest(
                                        KbInventoryMessage(filenames), kb, th.messages),
                                    !.pc = "done"]]
    /\ UNCHANGED <<index, _VECTORSTORE, handles, calls, deleted, gateVars, embVars, kbVars, chunkVars>>


(***************************************************************************)
(* The knowledge-base routes (src/app/routers/kb.py)                       *)
(***************************************************************************)
\* "Lease.PDF"
N_pdf ==
    <<"L", "e", "a", "s", "e", ".", "P", "D", "F">>
\* "notes.txt"
N_txt ==
    <<"n", "o", "t", "e", "s", ".", "t", "x", "t">>
\* "document"
N_default ==
    <<"d", "o", "c", "u", "m", "e", "n", "t">>
\* ".pdf"
Suffix_pdf ==
    <<".", "p", "d", "f">>

\* _safe_name keeps 120 characters of a name
MaxNameLen == 120

\* str.endswith
EndsWith(s, suffix) ==
    /\ Len(s) >= Len(suffix)
    /\ SubSeq(s, Len(s) - Len(suffix) + 1, Len(s)) = suffix

\* str.replace of one character by another
ReplaceChar(s, old, new) == [i \in 1..Len(s) |-> IF s[i] = old THEN new ELSE s[i]]

\* _safe_name: (name or "document").strip(), "\\" and "/" replaced by "_", [:120]
_safe_name(name) ==
    LET n == Strip(IF name = <<>> THEN N_default ELSE name)
        r == ReplaceChar(ReplaceChar(n, "\\", "_"), "/", "_")
    IN  SubSeq(r, 1, Min(MaxNameLen, Len(r)))

\* an UploadFile: its name, the texts of its pages, and whether pypdf reads it
UploadFile(filename, pages, readable) ==
    [filename |-> filename, pages |-> pages, readable |-> readable]

F_lease == UploadFile(N_pdf, <<"P_two">>, TRUE)
F_broken == UploadFile(N_pdf, <<>>, FALSE)
F_notes == UploadFile(N_txt, <<>>, TRUE)

\* the upload requests that are made: (current_user.id, files)
UploadRequests ==
    {<<"u1", <<>>>>,
     <<"u1", <<F_lease>>>>,
     <<"u1", <<F_lease, F_notes>>>>,
     <<"u1", <<F_broken>>>>,
     <<"u2", <<F_lease>>>>}

\* str(uuid.uuid4()): the n-th identifier drawn
Uuid(n) == "d" \o ToString(n)

\* the documents a delete request may name
DocIds == {Uuid(1), Uuid(2)}

\* dst = root / f"{doc_id}_{filename}", root = _storage_root() / user_id
StoragePath(user_id, doc_id, filename) == <<user_id, doc_id, filename>>

\* KnowledgeBaseDocument(id, user_id, filename, storage_path)
KnowledgeBaseDocument(doc_id, user_id, filename) ==
    [id |-> doc_id, user_id |-> user_id, filename |-> filename,
     storage_path |-> StoragePath(user_id, doc_id, filename)]

\* a thread that runs no kb route.  created holds the rows the request has
\* added to its session; status is the HTTP status of the response and cause
\* says what raised ("" when nothing did).
IdleRequest ==
    [handler |-> "idle", pc |-> "idle", user_id |-> "", files |-> <<>>,
     created |-> <<>>, doc_id |-> "", doc |-> <<>>, status |-> 0, cause |-> ""]

\* no kb route is called
KbOff ==
    /\ documents = {}
    /\ stored = {}
    /\ uuids = 0
    /\ req = [t \in Threads |-> IdleRequest]

\* the request ends with an error response: raise HTTPException(400, ...), or an
\* exception that leaves the route (500).  db.commit() was not reached, so the
\* rows added to the session are not in the table.
Fails(r, status, cause) == [r EXCEPT !.pc = "done", !.status = status, !.cause = cause]

\* upload_documents, lines 65-71
CallUploadDocuments(t) ==
    /\ Free(t)
    /\ calls < MaxCalls
    /\ \E u \in UploadRequests :
           LET r == [IdleRequest EXCEPT !.handler = "upload_documents",
                                        !.user_id = u[1], !.files = u[2]]
           IN  req' = [req EXCEPT ![t] =
                          IF u[2] = <<>> THEN Fails(r, 400, "no_files")
                          ELSE [r EXCEPT !.pc = "file"]]
    /\ thr' = [thr EXCEPT ![t] = IdleThread]
    /\ calls' = calls + 1
    /\ UNCHANGED <<index, _VECTORSTORE, handles, deleted, documents, stored, uuids,
                   gateVars, embVars, chunkVars>>

\* _extract_pdf_pages: the pages of the file, numbered from 1 (PdfReader raises
\* on a file it cannot read: see UploadDocumentsFile)
_extract_pdf_pages(f) == ExtractedPages(f.pages)

\* upload_documents, lines 74-103, for the next file: the name is checked, the
\* file is stored, its row is added to the session, its pages are extracted and
\* index_pages is called
UploadDocumentsFile(t) ==
    /\ req[t].pc = "file"
    /\ LET r == req[t]
           f == Head(r.files)
           filename == _safe_name(f.filename)
           doc_id == Uuid(uuids + 1)
           doc == KnowledgeBaseDocument(doc_id, r.user_id, filename)
           added == [r EXCEPT !.created = Append(r.created, doc)]
       IN  IF ~EndsWith(Lower(filename), Suffix_pdf)
           THEN /\ req' = [req EXCEPT ![t] = Fails(r, 400, "not_pdf")]
                /\ UNCHANGED <<stored, uuids, thr>>
           ELSE /\ uuids' = uuids + 1
                /\ stored' = stored \cup {doc.storage_path}
                /\ IF ~f.readable
                   THEN /\ req' = [req EXCEPT ![t] = Fails(added, 500, "extract")]
                        /\ UNCHANGED thr
                   ELSE /\ req' = [req EXCEPT ![t] = [added EXCEPT !.pc = "index_pages"]]
                        /\ thr' = [thr EXCEPT ![t] =
                                      get_vectorstore(
                                          [IdleThread EXCEPT !.op = "index_pages",
                                                             !.user_id = r.user_id,
                                                             !.doc_id = doc_id,
                                                             !.filename = filename,
                                                             !.pages = _extract_pdf_pages(f)])]
    /\ UNCHANGED <<index, _VECTORSTORE, handles, calls, deleted, documents,
                   gateVars, embVars, chunkVars>>

\* upload_documents, lines 98-109: index_pages has returned or raised.  An
\* exception leaves the route; after the last file db.commit() puts the rows of
\* the session in the table and the response is 201.
UploadDocumentsNext(t) ==
    /\ req[t].handler = "upload_documents"
    /\ req[t].pc = "index_pages"
    /\ thr[t].pc = "done"
    /\ LET r == req[t]
           rest == Tail(r.files)
       IN  IF thr[t].raised
           THEN /\ req' = [req EXCEPT ![t] = Fails(r, 500, "index")]
                /\ UNCHANGED documents
           ELSE IF rest # <<>>
           THEN /\ req' = [req EXCEPT ![t] = [r EXCEPT !.files = rest, !.pc = "file"]]
                /\ UNCHANGED documents
           ELSE /\ req' = [req EXCEPT ![t] =
                              [r EXCEPT !.files = rest, !.pc = "done", !.status = 201]]
                /\ documents' = documents \cup Range(r.created)
    /\ UNCHANGED <<idxVars, stored, uuids, gateVars, embVars, chunkVars>>

\* a call of rag_store ends with an exception
Raised(th) == [th EXCEPT !.pc = "done", !.raised = TRUE]

\* get_vectorstore, lines 61-69: os.makedirs or Chroma(...) raises; the global
\* stays as it was (under chat_stream: see RetrieveChunksRaises)
GetVectorstoreRaises(t) ==
    /\ thr[t].pc = "construct"
    /\ thr[t].op # "chat_stream"
    /\ thr' = [thr EXCEPT ![t] = Raised(thr[t])]
    /\ UNCHANGED <<index, _VECTORSTORE, handles, calls, deleted, gateVars, embVars,
                   kbVars, chunkVars>>

\* index_pages, line 115: vectorstore.add_documents raises, and nothing is written
AddDocumentsRaises(t) ==
    /\ thr[t].pc = "add_documents"
    /\ BuildDocs(thr[t].user_id, thr[t].doc_id, thr[t].filename, thr[t].pages) # <<>>
    /\ thr' = [thr EXCEPT ![t] = Raised(thr[t])]
    /\ UNCHANGED <<index, _VECTORSTORE, handles, calls, deleted, gateVars, embVars,
                   kbVars, chunkVars>>

\* delete_doc_index, line 128: _collection.delete raises, and nothing is removed
DeleteRaises(t) ==
    /\ thr[t].pc = "delete"
    /\ thr' = [thr EXCEPT ![t] = Raised(thr[t])]
    /\ UNCHANGED <<index, _VECTORSTORE, handles, calls, deleted, gateVars, embVars,
                   kbVars, chunkVars>>

\* delete_document, lines 122-131: the row with this id and this owner is looked
\* up; without one the response is 404, with one delete_doc_index is called
CallDeleteDocument(t) ==
    /\ Free(t)
    /\ calls < MaxCalls
    /\ \E u \in Users, d \in DocIds :
           LET r == [IdleRequest EXCEPT !.handler = "delete_document",
                                        !.user_id = u, !.doc_id = d]
               found == {x \in documents : x.id = d /\ x.user_id = u}
           IN  IF found = {}
               THEN /\ req' = [req EXCEPT ![t] = Fails(r, 404, "not_found")]
                    /\ thr' = [thr EXCEPT ![t] = IdleThread]
               ELSE /\ req' = [req EXCEPT ![t] =
                                  [r EXCEPT !.doc = <<The(found)>>,
                                            !.pc = "delete_doc_index"]]
                    /\ thr' = [thr EXCEPT ![t] =
                                  get_vectorstore(
                                      [IdleThread EXCEPT !.op = "delete_doc_index",
                                                         !.user_id = u, !.doc_id = d])]
    /\ calls' = calls + 1
    /\ UNCHANGED <<index, _VECTORSTORE, handles, deleted, documents, stored, uuids,
                   gateVars, embVars, chunkVars>>

\* delete_document, lines 131-141: delete_doc_index has returned or raised.  An
\* exception leaves the route.  Otherwise the file is unlinked (a failure of
\* unlink is passed over), the row is deleted and committed, and the response
\* is 204.
DeleteDocumentNext(t) ==
    /\ req[t].handler = "delete_document"
    /\ req[t].pc = "delete_doc_index"
    /\ thr[t].pc = "done"
    /\ LET r == req[t]
           doc == r.doc[1]
       IN  IF thr[t].raised
           THEN /\ req' = [req EXCEPT ![t] = Fails(r, 500, "index")]
                /\ UNCHANGED <<documents, stored>>
           ELSE /\ req' = [req EXCEPT ![t] = [r EXCEPT !.pc = "done", !.status = 204]]
                /\ \E unlinked \in BOOLEAN :
                       stored' = IF unlinked THEN stored \ {doc.storage_path} ELSE stored
                /\ documents' = documents \ {doc}
    /\ UNCHANGED <<idxVars, uuids, gateVars, embVars, chunkVars>>

\* the table, the storage directory and the index as an earlier run of the
\* server left them: empty, or with the document d1 of u1 uploaded
PersistedApp ==
    {[documents |-> {}, stored |-> {}, index |-> {}, uuids |-> 0],
     [documents |-> {KnowledgeBaseDocument(Uuid(1), "u1", N_pdf)},
      stored |-> {StoragePath("u1", Uuid(1), N_pdf)},
      index |-> Range(BuildDocs("u1", Uuid(1), N_pdf, _extract_pdf_pages(F_lease))),
      uuids |-> 1]}

\* the server has started: no handle yet, no request running
InitApp ==
    /\ \E p \in PersistedApp :
           /\ documents = p.documents
           /\ stored = p.stored
           /\ index = p.index
           /\ uuids = p.uuids
    /\ _VECTORSTORE = NoHandle
    /\ handles = 0
    /\ thr = [t \in Threads |-> IdleThread]
    /\ calls = 0
    /\ deleted = {}
    /\ req = [t \in Threads |-> IdleRequest]

\* the kb routes over rag_store, with the failures of Chroma and pypdf
NextApp ==
    \E t \in Threads :
        \/ CallUploadDocuments(t)
        \/ UploadDocumentsFile(t)
        \/ UploadDocumentsNext(t)
        \/ CallDeleteDocument(t)
        \/ DeleteDocumentNext(t)
        \/ ConstructVectorstore(t)
        \/ GetVectorstoreRaises(t)
        \/ IndexPagesAdd(t)
        \/ AddDocumentsRaises(t)
        \/ IndexPagesPersist(t)
        \/ DeleteDocIndexDelete(t)
        \/ DeleteRaises(t)
        \/ DeleteDocIndexPersist(t)

(***************************************************************************)
(* chat_stream when the retrieval fails (src/app/main.py, lines 150-176)   *)
(***************************************************************************)
\* a chat_stream that lets the exception of the retrieval out
ChatStreamCaught_PropagateMutant(th, filenames) ==
    [th EXCEPT !.raised = TRUE, !.pc = "done"]

\* chat_stream, lines 168-176: an exception of lines 151-167 is caught,
\* kb_context_message is None and the messages are built without it
ChatStreamCaught(th, filenames) ==
    [th EXCEPT !.caught = TRUE, !.use_context = FALSE,
               !.request = GenerationRequest(KbInventoryMessage(filenames), <<>>,
                                             th.messages),
               !.pc = "done"]

\* chat_stream, line 153: retrieve_chunks raises, in get_vectorstore or in the
\* search
RetrieveChunksRaises(t) ==
    /\ thr[t].op = "chat_stream"
    /\ thr[t].pc \in {"construct", "search"}
    /\ \E filenames \in Inventories :
           thr' = [thr EXCEPT ![t] = ChatStreamCaught(thr[t], filenames)]
    /\ UNCHANGED <<index, _VECTORSTORE, handles, calls, deleted, gateVars, embVars,
                   kbVars, chunkVars>>

\* chat_stream, lines 154-167: should_use_context, called for a query that is
\* not empty, or the building of the excerpts raises
ShouldUseContextRaises(t) ==
    /\ thr[t].op = "chat_stream"
    /\ thr[t].pc = "gate"
    /\ thr[t].query # <<>>
    /\ \E filenames \in Inventories :
           thr' = [thr EXCEPT ![t] = ChatStreamCaught(thr[t], filenames)]
    /\ UNCHANGED <<index, _VECTORSTORE, handles, calls, deleted, gateVars, embVars,
                   kbVars, chunkVars>>

\* the index as earlier ingestions left it: five chunks of u1 on three pages,
\* and one chunk of u2
ChatIndex ==
    Range(BuildDocs("u1", "d1", "a.pdf", ExtractedPages(<<"P_two", "P_two", "T_one">>)))
        \cup Range(BuildDocs("u2", "d1", "a.pdf", ExtractedPages(<<"T_one">>)))

\* the server has started: no handle yet, no request running
InitChat ==
    /\ index = ChatIndex
    /\ _VECTORSTORE = NoHandle
    /\ handles = 0
    /\ thr = [t \in Threads |-> IdleThread]
    /\ calls = 0
    /\ deleted = {}

\* chat_stream is an "async def" route with no await before its messages are
\* built: every chat request runs on the thread of the event loop, one after
\* the other
LoopThread == 1

\* chat requests alone, with the failures of the retrieval
NextChat ==
    \E t \in {LoopThread} :
        \/ CallChatStream(t)
        \/ ConstructVectorstore(t)
        \/ RetrieveChunksSearch(t)
        \/ ChatStreamGate(t)
        \/ RetrieveChunksRaises(t)
        \/ ShouldUseContextRaises(t)

Next ==
    \E t \in Threads :
        \/ CallIndexPages(t)
        \/ CallDeleteDocIndex(t)
        \/ CallRetrieveChunks(t)
        \/ CallChatStream(t)
        \/ ConstructVectorstore(t)
        \/ IndexPagesAdd(t)
        \/ IndexPagesPersist(t)
        \/ DeleteDocIndexDelete(t)
        \/ DeleteDocIndexPersist(t)
        \/ RetrieveChunksSearch(t)
        \/ ChatStreamGate(t)

(***************************************************************************)
(* chunk_text on its own                                                   *)
(***************************************************************************)
\* the longest run of characters without a separator in a text that is chunked
MaxRun == 1000

\* n times the character c
Run(c, n) == [i \in 1..n |-> c]

\* the lengths of the runs: none, one character, half a chunk, and around the
\* chunk size
RunLengths == {0, 1, 450, ChunkSize - 1, ChunkSize, ChunkSize + 1, MaxRun}

\* what stands between two runs: nothing, a space, a line break, a paragraph break
RunBreaks == {<<>>, <<" ">>, <<"\n">>, <<"\n", "\n">>}

\* the texts that are chunked: a run of "x", a break, a run of "y"
ChunkTexts ==
    {Run("x", a) \o b \o Run("y", c) : a \in RunLengths, b \in RunBreaks, c \in RunLengths}

\* the argument of the call is drawn here; ChunkTextCall applies chunk_text
InitChunk ==
    /\ chunk_in \in ChunkTexts
    /\ chunk_out = <<>>
    /\ chunk_pc = "call"

\* chunk_text(text) runs and returns
ChunkTextCall ==
    /\ chunk_pc = "call"
    /\ chunk_pc' = "done"
    /\ chunk_out' = chunk_text(chunk_in)
    /\ UNCHANGED <<chunk_in, gateVars, embVars, idxVars, kbVars>>

NextChunk == ChunkTextCall

\* chunk_text is not called on its own
ChunkOff ==
    /\ chunk_in = <<>>
    /\ chunk_out = <<>>
    /\ chunk_pc = "off"

GateOff ==
    /\ gate_query = <<>>
    /\ gate_chunks = <<>>
    /\ gate_kws = <<>>
    /\ gate_result = FALSE
    /\ gate_pc = "off"

\* the gate alone: the other parts stay as they start
InitSpecGate == InitGate /\ EmbedOff /\ IndexOff /\ KbOff /\ ChunkOff
SpecGate == InitSpecGate /\ [][NextGate]_vars

\* the embedding alone
InitSpecEmbed == InitEmbed /\ GateOff /\ IndexOff /\ KbOff /\ ChunkOff
SpecEmbed == InitSpecEmbed /\ [][NextEmbed]_vars

Init == GateOff /\ EmbedOff /\ InitIndex /\ KbOff /\ ChunkOff

\* chunk_text alone
InitSpecChunk == InitChunk /\ GateOff /\ EmbedOff /\ IndexOff /\ KbOff
SpecChunk == InitSpecChunk /\ [][NextChunk]_vars

\* the chat route
InitSpecChat == GateOff /\ EmbedOff /\ InitChat /\ KbOff /\ ChunkOff
SpecChat == InitSpecChat /\ [][NextChat]_vars

\* the kb routes
InitSpecApp == GateOff /\ EmbedOff /\ InitApp /\ ChunkOff
SpecApp == InitSpecApp /\ [][NextApp]_vars

Spec == Init /\ [][Next]_vars

\* ---- retrieval, ingestion and deletion: the properties ----

\* the stored entries a call of retrieve_chunks got from the index
Returned(t) == Range(thr[t].results)

\* the calls that run retrieve_chunks: the direct ones and those of chat_stream
Retrieving(t) == thr[t].op \in {"retrieve_chunks", "chat_stream"}

\* C1: whatever index_pages and delete_doc_index calls were made, by whatever
\* owners, no call of retrieve_chunks(user_id, query, k) gets an entry whose
\* stored owner is another user.
C1_TenantIsolation ==
    \A t \in Threads :
        Retrieving(t) => \A e \in Returned(t) : e.metadata.user_id = thr[t].user_id

\* C1, the case: a retrieval that returned entries while the index held entries
\* of another owner
C1_Witness ==
    \E t \in Threads :
        /\ thr[t].op = "retrieve_chunks"
        /\ thr[t].pc = "done"
        /\ Returned(t) # {}
        /\ \E e \in index : e.metadata.user_id # thr[t].user_id

\* the batches index_pages can write for a document
BatchesOf(ud) ==
    {Range(BuildDocs(r[1], r[2], r[3], r[4])) :
        r \in {r \in IndexRequests : <<r[1], r[2]>> = ud}}

\* C2: the chunks of one document that a search returns all come from one
\* index_pages call: they are never a mix of the chunks of an older and of a
\* newer ingestion of that document.
C2_NoMixOfOldAndNew ==
    \A t \in Threads : \A ud \in Documents :
        LET got == {e \in Returned(t) : /\ e.metadata.user_id = ud[1]
                                        /\ e.metadata.doc_id = ud[2]}
        IN  Retrieving(t) => \E batch \in BatchesOf(ud) : got \subseteq batch

\* C3: a search that runs after delete_doc_index(user_id, doc_id) has removed a
\* document, with no ingestion of that document in between, returns no chunk
\* of it to that user.
C3_DeletionCompleteness ==
    \A t \in Threads :
        (Retrieving(t) /\ thr[t].searched) =>
            \A e \in Returned(t) : \A x \in thr[t].deleted_before :
                ~(x[1] = thr[t].user_id /\ x[2] = e.metadata.doc_id)

\* C3, the case: a retrieval whose search ran after a delete had removed the two
\* chunks of a document of the same user
C3_Witness ==
    \E t \in Threads :
        /\ thr[t].op = "retrieve_chunks"
        /\ thr[t].pc = "done"
        /\ \E x \in thr[t].deleted_before : x[1] = thr[t].user_id /\ x[3] >= 2

\* no two entries of the index have the same identifier
UniqueIds == \A e1, e2 \in index : e1.id = e2.id => e1 = e2

\* index_pages returns the number of chunks of its pages
CountOfPages ==
    \A t \in Threads :
        (thr[t].op = "index_pages" /\ thr[t].pc = "done") =>
            thr[t].count =
                Len(BuildDocs(thr[t].user_id, thr[t].doc_id, thr[t].filename, thr[t].pages))

\* an index_pages that finds the entries of its batch in the index, as an
\* earlier call with the same arguments left them, leaves the index as it is
RepeatedAddChangesNothing ==
    \A t \in Threads :
        (/\ thr[t].pc = "add_documents"
         /\ thr'[t].pc = "persist"
         /\ Range(thr'[t].docs) \subseteq index) => index' = index

\* C4: index_pages with the same user_id, doc_id, filename and pages returns the
\* same count every time, and a second such call leaves the index with the
\* entries the first one left; in every state of the index an identifier
\* occurs once at most.
C4_IngestionIdempotent ==
    /\ [](UniqueIds /\ CountOfPages)
    /\ [][RepeatedAddChangesNothing]_vars

\* C4, the case: two calls of index_pages with the same arguments have returned,
\* with the same count, and the index holds the batch once
C4_Witness ==
    \E a, b \in Threads :
        /\ a # b
        /\ thr[a].op = "index_pages" /\ thr[a].pc = "done"
        /\ thr[b].op = "index_pages" /\ thr[b].pc = "done"
        /\ <<thr[a].user_id, thr[a].doc_id, thr[a].filename, thr[a].pages>>
               = <<thr[b].user_id, thr[b].doc_id, thr[b].filename, thr[b].pages>>
        /\ thr[a].count = thr[b].count
        /\ thr[a].count = 2
        /\ index = Range(thr[a].docs)
        /\ Cardinality(index) = 2

Matches(e, user_id, doc_id) ==
    e.metadata.user_id = user_id /\ e.metadata.doc_id = doc_id

\* C8: the delete of delete_doc_index(user_id, doc_id) removes the entries whose
\* metadata has that user_id and that doc_id, all of them and no other; without
\* such an entry the index stays as it is; the call returns without raising.
C8_DeleteRemovesExactlyTheDocument ==
    /\ [][\A t \in Threads :
            (thr[t].pc = "delete" /\ thr'[t].pc # "delete") =>
                /\ index' \subseteq index
                /\ \A e \in index \ index' : Matches(e, thr[t].user_id, thr[t].doc_id)
                /\ \A e \in index' : ~Matches(e, thr[t].user_id, thr[t].doc_id)
                /\ (\A e \in index : ~Matches(e, thr[t].user_id, thr[t].doc_id))
                       => index' = index]_vars
    /\ [](\A t \in Threads : thr[t].op = "delete_doc_index" => ~thr[t].raised)

\* C8, the case: a delete that removed a document's entries has returned, and
\* the index still holds that doc_id under another owner
C8_Witness ==
    \E t \in Threads :
        /\ thr[t].op = "delete_doc_index"
        /\ thr[t].pc = "done"
        /\ \E x \in deleted : /\ <<x[1], x[2]>> = <<thr[t].user_id, thr[t].doc_id>>
                              /\ x[3] >= 1
        /\ \E e \in index : /\ e.metadata.doc_id = thr[t].doc_id
                            /\ e.metadata.user_id # thr[t].user_id

\* C9 as stated: retrieve_chunks called with an empty query returns an empty
\* sequence, and neither gets the index handle nor searches.
C9_RetrieveChunksGuardsEmptyQuery ==
    \A t \in Threads :
        (thr[t].op = "retrieve_chunks" /\ thr[t].query = <<>>) =>
            /\ thr[t].pc \notin {"construct", "search"}
            /\ thr[t].vectorstore = NoHandle
            /\ ~thr[t].searched
            /\ thr[t].chunks = <<>>

\* C9, amended: it is chat_stream that does not call retrieve_chunks when the
\* last user message is empty: it gets no handle, runs no search, has no chunks
\* and adds no excerpts; retrieve_chunks itself, given an empty query, searches
\* with the owner filter like for any other query.
C9_ChatStreamSkipsEmptyQuery ==
    \A t \in Threads :
        /\ (thr[t].op = "chat_stream" /\ thr[t].query = <<>>) =>
               /\ thr[t].pc \in {"gate", "done"}
               /\ thr[t].vectorstore = NoHandle
               /\ ~thr[t].searched
               /\ thr[t].chunks = <<>>
               /\ ~thr[t].use_context
        /\ (thr[t].op = "retrieve_chunks" /\ thr[t].pc = "done") =>
               /\ thr[t].searched
               /\ thr[t].vectorstore # NoHandle

\* C9, the case: a chat request whose last user message is empty is done, while
\* the index holds chunks of that user and a handle exists
C9_Witness ==
    \E t \in Threads :
        /\ thr[t].op = "chat_stream"
        /\ thr[t].pc = "done"
        /\ thr[t].messages # <<>>
        /\ thr[t].query = <<>>
        /\ _VECTORSTORE # NoHandle
        /\ \E e \in index : e.metadata.user_id = thr[t].user_id

\* C10: when persist() raises in index_pages, the call still returns, without
\* raising, the number of chunks it handed to add_documents, and the failure
\* takes nothing out of the index.
C10_PersistFailureSwallowed ==
    /\ [][\A t \in Threads :
            (/\ thr[t].op = "index_pages"
             /\ thr[t].pc = "persist"
             /\ thr'[t].pc # "persist"
             /\ thr'[t].persist_failed) =>
                /\ index' = index
                /\ thr'[t].pc = "done"
                /\ ~thr'[t].raised
                /\ thr'[t].count = Len(thr[t].docs)]_vars
    /\ [](\A t \in Threads :
            (thr[t].op = "index_pages" /\ thr[t].pc = "done") =>
                (~thr[t].raised /\ thr[t].count >= 0))

\* C10, the case: an index_pages whose persist() raised has returned 2 and its
\* two chunks are in the index
C10_Witness ==
    \E t \in Threads :
        /\ thr[t].op = "index_pages"
        /\ thr[t].pc = "done"
        /\ thr[t].persist_failed
        /\ thr[t].count = 2
        /\ Range(thr[t].docs) \subseteq index

\* ---- the kb routes: the properties ----

\* an upload request during which the extraction or the indexing of a file raised
IngestionFailed(t) ==
    /\ req[t].handler = "upload_documents"
    /\ req[t].pc = "done"
    /\ req[t].cause \in {"extract", "index"}

\* C11: when the extraction of the pages or index_pages raises for a file during
\* upload_documents, the request still ends with its 201 response and the rows of
\* its documents are committed.
C11_IngestionFailureNonFatal ==
    \A t \in Threads :
        IngestionFailed(t) =>
            /\ req[t].status = 201
            /\ Range(req[t].created) \subseteq documents

\* ---- chat_stream: the properties ----

\* the requests chat_stream may build without excerpts
RequestsWithoutContext(t) ==
    {GenerationRequest(KbInventoryMessage(f), <<>>, thr[t].messages) : f \in Inventories}

\* C12: when retrieve_chunks or should_use_context raises during chat_stream, the
\* request does not fail: nothing is raised out of it, no excerpts message is
\* added, and the generation request is the system prompt, the inventory
\* message if there is one, and the history.
C12_RetrievalFailureDegrades ==
    \A t \in Threads :
        (thr[t].op = "chat_stream" /\ thr[t].pc = "done") =>
            /\ ~thr[t].raised
            /\ thr[t].caught =>
                   /\ ~thr[t].use_context
                   /\ thr[t].request \in RequestsWithoutContext(t)

\* C12, the case: a chat request whose retrieve_chunks raised is done, with its
\* generation request, while the user has chunks in the index
C12_Witness ==
    \E t \in Threads :
        /\ thr[t].op = "chat_stream" /\ thr[t].pc = "done" /\ thr[t].caught
        /\ thr[t].chunks = <<>>
        /\ thr[t].query # <<>>
        /\ thr[t].request # <<>>
        /\ \E e \in index : e.metadata.user_id = thr[t].user_id

\* a delete request for a document of the caller during which delete_doc_index
\* raised
DeletionFailed(t) ==
    /\ req[t].handler = "delete_document"
    /\ req[t].pc = "done"
    /\ req[t].cause = "index"

\* C13: when delete_doc_index raises while delete_document handles a request for
\* a document of the caller, the error is not given to the user (the response is
\* the 204 of a deletion), and the stored file and the row of the document are
\* deleted.
C13_DeletionFailureDoesNotBlock ==
    \A t \in Threads :
        DeletionFailed(t) =>
            /\ req[t].status = 204
            /\ req[t].doc[1] \notin documents
            /\ req[t].doc[1].storage_path \notin stored

\* ---- chunk_text: the properties ----

\* C14: every chunk that chunk_text returns has at most 900 characters, also for
\* a text that has no paragraph break, line break or space within 900
\* characters, and for the empty text it returns the empty sequence.
C14_ChunkSizeBound ==
    chunk_pc = "done" =>
        /\ \A i \in 1..Len(chunk_out) : Len(chunk_out[i]) <= ChunkSize
        /\ chunk_in = <<>> => chunk_out = <<>>

\* C14, the case: a text of more than 900 characters with no break in it was
\* cut into several chunks, one of them of 900 characters
C14_Witness ==
    /\ chunk_pc = "done"
    /\ Len(chunk_in) > ChunkSize
    /\ \A i \in 1..Len(chunk_in) : chunk_in[i] \notin {" ", "\n"}
    /\ Len(chunk_out) >= 2
    /\ \E i \in 1..Len(chunk_out) : Len(chunk_out[i]) = ChunkSize

\* no kb request is running
AllCompleted == \A t \in Threads : req[t].pc \in {"idle", "done"}

\* the chunk belongs to a committed document of its owner
HasRecord(e) ==
    \E d \in documents : d.id = e.metadata.doc_id /\ d.user_id = e.metadata.user_id

\* C15: once the upload_documents and delete_document requests that were made
\* have completed, with an error or without, every chunk of the index carries the
\* doc_id and the owner of a row committed in kb_documents.
C15_IndexMatchesDocumentStore ==
    AllCompleted => \A e \in index : HasRecord(e)

\* ---- the index handle: the properties ----

\* C16: however the calls of get_vectorstore made by index_pages,
\* delete_doc_index and retrieve_chunks in different request threads interleave,
\* Chroma(...) is constructed at most once and all the callers get the same
\* handle.
C16_OneHandlePerProcess ==
    /\ handles <= 1
    /\ \A a, b \in Threads :
           (thr[a].vectorstore # NoHandle /\ thr[b].vectorstore # NoHandle) =>
               thr[a].vectorstore = thr[b].vectorstore

\* ---- the gate in chat_stream: the properties ----

\* where the excerpts messages are in a generation request
ExcerptsAt(r) == {i \in 1..Len(r) : r[i].kind = "kb_excerpts"}

\* the excerpt is the chunk made of this entry of the index
ExcerptOf(x, e) ==
    /\ x.text = e.page_content
    /\ x.filename = e.metadata.filename
    /\ x.page = e.metadata.page

\* C17: the generation request that chat_stream builds holds an excerpts message
\* only if the last user message is not empty and should_use_context returned
\* true for it and the retrieved chunks.  There is then one such message; it holds
\* the first 4 retrieved chunks and no other, all of the current user; it comes
\* after the system prompt and the inventory message and right before the
\* history.  Otherwise the request is made of the system prompt, the inventory
\* message and the history alone.
C17_GateEnforcedInChat ==
    \A t \in Threads :
        (thr[t].op = "chat_stream" /\ thr[t].pc = "done") =>
            LET r == thr[t].request
                n == Len(r)
                h == Len(thr[t].messages)
                res == thr[t].results
            IN  /\ n >= 1 + h
                /\ r[1].kind = "SYSTEM_PROMPT+RAG_GUIDANCE"
                /\ \A i \in 1..h : /\ r[n - h + i].kind = "history"
                                   /\ r[n - h + i].content = thr[t].messages[i].content
                /\ \A i \in 2..(n - h) : r[i].kind \in {"kb_inventory", "kb_excerpts"}
                /\ ExcerptsAt(r) # {} =>
                       /\ thr[t].query # <<>>
                       /\ should_use_context(thr[t].query, thr[t].chunks)
                       /\ ExcerptsAt(r) = {n - h}
                       /\ \A i \in 2..(n - h - 1) : r[i].kind = "kb_inventory"
                       /\ Len(r[n - h].excerpts) = Min(GateTop, Len(res))
                       /\ \A i \in 1..Len(r[n - h].excerpts) :
                              /\ ExcerptOf(r[n - h].excerpts[i], res[i])
                              /\ res[i].metadata.user_id = thr[t].user_id
                /\ (thr[t].query = <<>> \/ thr[t].caught
                        \/ ~should_use_context(thr[t].query, thr[t].chunks)) =>
                       ExcerptsAt(r) = {}

\* C17, the case: a chat request is done whose retrieval gave more than 4 chunks
\* and whose gate passed: its generation request has the inventory message, the
\* excerpts message with 4 excerpts and the history
C17_Witness ==
    \E t \in Threads :
        /\ thr[t].op = "chat_stream" /\ thr[t].pc = "done"
        /\ Len(thr[t].chunks) > GateTop
        /\ thr[t].use_context
        /\ Len(thr[t].request) = 4
        /\ thr[t].request[2].kind = "kb_inventory"
        /\ thr[t].request[3].kind = "kb_excerpts"
        /\ Len(thr[t].request[3].excerpts) = GateTop
        /\ thr[t].request[4].kind = "history"

====
